---- MODULE Spec2Model ----
(***************************************************************************)
(* Quarantine-violation alert network: the App backend's subject registry  *)
(* (register / observe / detection tick), the Authority backend's          *)
(* violation ledger, and the beacon that issues encrypted timestamps.      *)
(*                                                                         *)
(* Time is counted in seconds.  The clock is read only at multiples of     *)
(* ClockStep, and a timestamp string is its zero-padded decimal rendering. *)
(***************************************************************************)
EXTENDS Integers, Sequences, FiniteSets, TLC

(* ------------------------------ bounds --------------------------------- *)
ClockStep == 15
MaxTime == 30
MaxLog == 2
MaxConn == 2
MaxRuns == 2
MaxTicks == 2

(* ------------------------- program constants --------------------------- *)
td_expire == 15
app_header == "App"
health_authority_header == "HealthAuthority"
smartphone_header == "Smartphone"
app_root == "app"
auth_root == "auth"
health_authority_root == "health"
\* the first and the third patient of the demo
phone_list == <<"skt_01", "skt_03">>
beacon_list == <<"beacon_01", "beacon_02">>
key_list == <<"key_01", "key_03">>
header_list == <<"header_01", "header_03">>
info_list == <<"info_beacon_01", "info_beacon_02">>

Range(s) == {s[i] : i \in DOMAIN s}
Times == {t \in 0..MaxTime : t % ClockStep = 0}

VARIABLES
    now,           \* dt.utcnow(), the one clock of the process
    database,      \* AppBackend._database: id_phone -> <<id_beacon, key, datetime string>>
    dbKeys,        \* the insertion order of AppBackend._database (dict order)
    appFile,       \* AppBackend's database.json: its members, in the order of the file
    appPc,         \* AppBackend.server_session thread: "accept" (in its loop) or "dead"
    appLog,        \* the last execution-log line written by the App accept loop
    ctlPc,         \* the control-routine timer thread: "idle", "run" or "dead"
    ctlPos,        \* position of the dict iterator of control_routine
    ctlLen,        \* size of the dict when the iterator was created
    authDatabase,  \* AuthorityBackend._database: id_beacon -> info
    authFile,      \* AuthorityBackend's database.json
    log,           \* AuthorityBackend._log: id_beacon -> list of datetime strings
    logFile,       \* AuthorityBackend's log.json
    authPc,        \* AuthorityBackend.server_session thread: "accept" (in its loop) or "dead"
    authConn,      \* the message of the connection the Authority has accepted, or <<>>
    packet,        \* beacon_packets/<header>.txt: <<>> (empty file) or <<ciphertext>>
    beaconOn,      \* SmartBeacon._on, per header
    conn,          \* per backend and client connection: how far the accept loop has taken it
    cur,           \* per backend: the connection its accept loop is serving, or 0 (at accept())
    rcv,           \* per backend: the message read from the connection being served
    peer,          \* per backend: the certificate its client presented in the handshake
    keyFile,       \* per backend: <root>/key.pem
    certFile,      \* per backend: <root>/certificate.pem
    caFile,        \* per principal: <root>/ca_certificate.pem
    session,       \* what the last client session did
    demoPc,        \* how far the program has come: Demo.__init__ ("app", "auth",
                   \* "trust", "ready") or Demo.run ("run")
    runs,          \* the number of times the program has been started
    dataPc,        \* the thread of Demo._data_routine: waiting for its timer, at the
                   \* routine of beacon i or of phone i, or dead
    tick,          \* the number of data ticks that have begun
    packetTick,    \* per header: the data tick in which the packet was last written
    phoneOn,       \* SmartPhone._on, per phone
    bluetooth,     \* SmartPhone._bluetooth, per phone
    wifi,          \* SmartPhone._wifi, per phone
    phoneLog,      \* SmartPhone._log and its file: datetime string -> ciphertext
    relayed        \* the last token that a phone delivered to the App backend

appVars == <<database, dbKeys, appFile, appPc, appLog>>
ctlVars == <<ctlPc, ctlPos, ctlLen>>
authVars == <<authDatabase, authFile, log, logFile, authPc>>
dataVars == <<dataPc, tick, packetTick, phoneOn, bluetooth, wifi, phoneLog, relayed>>
devVars == <<packet, beaconOn, dataVars>>
loopVars == <<conn, cur, rcv, peer>>
idVars == <<keyFile, certFile, caFile, session, demoPc, runs>>
netVars == <<loopVars, idVars>>
vars == <<now, appVars, ctlVars, authVars, authConn, devVars, netVars>>

(* ----------------------- datetime <-> string --------------------------- *)
\* faulty variant: the last field of the format is lost
strftime_truncated(t) == <<t \div 10, 0>>

\* dt.strftime(database_dt_format): fixed-width decimal fields
strftime(t) == <<t \div 10, t % 10>>

\* whether dt.strptime(s, database_dt_format) parses s (else ValueError)
IsDatetimeString(s) == Len(s) = 2 /\ \A i \in 1..2 : s[i] \in 0..9

\* dt.strptime(s, database_dt_format)
strptime(s) == s[1] * 10 + s[2]

\* a plaintext that is no datetime string
Junk == <<>>

(* ------------------------------ Fernet --------------------------------- *)
\* Fernet(key).encrypt(plaintext): an authenticated token bound to its key
Encrypt(key, plaintext) == [key |-> key, data |-> plaintext]

\* a string that is no Fernet token of any key
Malformed == [key |-> "", data |-> Junk]

\* faulty variant: any well-formed token decrypts, whatever its key
Decrypt_any_key(key, token) ==
    IF token.key # "" THEN [ok |-> TRUE, data |-> token.data]
                      ELSE [ok |-> FALSE, data |-> <<>>]

\* faulty variant: no authentication at all
Decrypt_unauthenticated(key, token) == [ok |-> TRUE, data |-> token.data]

\* Fernet(key).decrypt(token): the plaintext, or InvalidToken raised
Decrypt(key, token) ==
    IF token.key = key THEN [ok |-> TRUE, data |-> token.data]
                       ELSE [ok |-> FALSE, data |-> Junk]

Plaintexts == {strftime(t) : t \in Times} \cup {Junk}
Ciphertexts == {Encrypt(k, pt) : k \in Range(key_list), pt \in Plaintexts} \cup {Malformed}

(* --------------------------- dict helpers ------------------------------ *)
Put(d, k, v) == [x \in DOMAIN d \cup {k} |-> IF x = k THEN v ELSE d[x]]
EmptyDict == [x \in {} |-> <<>>]

LastSeen(id_phone) == strptime(database[id_phone][3])

(* --------------------------- json snapshots ---------------------------- *)
\* faulty variant: the file is opened for writing and nothing is dumped
json_dump_nothing(d, keys) == <<>>

\* json.dump(d, j): the members of the dict, in the order of the dict
json_dump(d, keys) == [i \in DOMAIN keys |-> <<keys[i], d[keys[i]]>>]

\* json.load(j): the dict of the members of the file (of two members with one
\* name the later one counts)
json_load(text) ==
    [k \in {text[i][1] : i \in DOMAIN text} |->
        text[CHOOSE i \in DOMAIN text :
                 text[i][1] = k /\ \A j \in DOMAIN text : text[j][1] = k => j <= i][2]]

\* the order of the dict that json.load returns: the order of the file
RECURSIVE json_keys(_)
json_keys(text) ==
    IF text = <<>> THEN <<>>
    ELSE LET front == json_keys(SubSeq(text, 1, Len(text) - 1))
             k == text[Len(text)][1]
         IN  IF k \in Range(front) THEN front ELSE Append(front, k)

\* the order of a dict of the Authority, which the program never iterates:
\* its beacons are listed as beacon_list has them
KeyOrder(d) == SelectSeq(beacon_list, LAMBDA b : b \in DOMAIN d)

\* no database.json or log.json yet, or the snapshot of an empty dict
NoMembers == <<>>

(* ------------------- identities and the TLS handshake ------------------ *)
Backends == {app_root, auth_root}
Principals == {app_root, auth_root, health_authority_root}
ConnIds == 1..MaxConn

\* os.path.exists(path) is false
NoFile == <<>>

\* the n-th key that is generated in the directory root, and the self-signed
\* certificate made from it
Identity(root, n) == <<root, n>>

\* the certificate of somebody who holds none of the backends' keys
intruder_certificate == Identity("intruder", 1)

\* the backend whose certificate a backend imports as its ca_certificate
Counterpart(root) == IF root = app_root THEN auth_root ELSE app_root

\* faulty variant: the certificate of the client is not checked
VerifyPeer_none(certificate, ca_certs) == TRUE

\* cert_reqs=ssl.CERT_REQUIRED with ca_certs: the peer must present the very
\* certificate that is stored as ca_certificate.pem
VerifyPeer(certificate, ca_certs) == certificate # NoFile /\ certificate = ca_certs

\* a ca_certificate.pem that open(path, "w") created and nothing was written to
EmptyFile == <<"">>

\* no client session has run yet
NoSession == [client |-> "", fetches |-> 0, connections |-> 0, delivered |-> FALSE]

\* the identity files as Demo.__init__ leaves them in an empty directory: each
\* backend has generated its pair and imported the certificate of the other
InitIdentity ==
    /\ keyFile = [b \in Backends |-> Identity(b, 1)]
    /\ certFile = [b \in Backends |-> Identity(b, 1)]
    /\ caFile = [x \in Principals |->
                    IF x \in Backends THEN Identity(Counterpart(x), 1) ELSE NoFile]
    /\ session = NoSession
    /\ demoPc = "run"
    /\ runs = 1

\* no phone has delivered a token yet
NoRelay == [phone |-> "", tick |-> 0, made |-> 0, offline |-> FALSE]

\* the phones as SmartPhone.__init__ leaves them, and the data routine before
\* its first run
InitDevices ==
    /\ dataPc = [at |-> "timer", i |-> 0]
    /\ tick = 0
    /\ packetTick = [h \in Range(header_list) |-> 0]
    /\ phoneOn = [p \in Range(phone_list) |-> TRUE]
    /\ bluetooth = [p \in Range(phone_list) |-> TRUE]
    /\ wifi = [p \in Range(phone_list) |-> TRUE]
    /\ phoneLog = [p \in Range(phone_list) |-> [x \in {} |-> <<>>]]
    /\ relayed = NoRelay

\* no client has connected yet
InitLoop ==
    /\ conn = [b \in Backends |-> [c \in ConnIds |-> "none"]]
    /\ cur = [b \in Backends |-> 0]
    /\ rcv = [b \in Backends |-> <<>>]
    /\ peer = [b \in Backends |-> NoFile]

(* ------------------------------- Init ---------------------------------- *)
Init ==
    /\ now = 0
    /\ database = EmptyDict
    /\ dbKeys = <<>>
    /\ appFile = NoMembers
    /\ appPc = "accept"
    /\ appLog = <<>>
    /\ ctlPc = "idle"
    /\ ctlPos = 0
    /\ ctlLen = 0
    /\ authDatabase = EmptyDict
    /\ authFile = NoMembers
    /\ log = EmptyDict
    /\ logFile = NoMembers
    /\ authPc = "accept"
    /\ authConn = <<>>
    /\ packet = [h \in Range(header_list) |-> <<>>]
    /\ beaconOn = [h \in Range(header_list) |-> TRUE]
    /\ InitDevices
    /\ InitLoop
    /\ InitIdentity

(* ------------------------------ clock ---------------------------------- *)
AdvanceClock ==
    /\ now + ClockStep <= MaxTime
    /\ now' = now + ClockStep
    /\ UNCHANGED <<appVars, ctlVars, authVars, authConn, devVars, netVars>>

(* ---------------------------- AppBackend ------------------------------- *)
\* faulty variant: a phone that is already registered keeps its datetime
add_phone_keep(id_phone, id_beacon, key) ==
    /\ database' = Put(database, id_phone,
                       <<id_beacon, key,
                         IF id_phone \in DOMAIN database THEN database[id_phone][3]
                                                         ELSE strftime(now)>>)
    /\ dbKeys' = IF id_phone \in DOMAIN database THEN dbKeys ELSE Append(dbKeys, id_phone)
    /\ appFile' = json_dump(database', dbKeys')
    /\ appLog' = <<"New Patient", id_phone, id_beacon, key>>
    /\ appPc' = "accept"

\* AppBackend._add_phone
add_phone(id_phone, id_beacon, key) ==
    /\ database' = Put(database, id_phone, <<id_beacon, key, strftime(now)>>)
    /\ dbKeys' = IF id_phone \in DOMAIN database THEN dbKeys ELSE Append(dbKeys, id_phone)
    /\ appFile' = json_dump(database', dbKeys')
    /\ appLog' = <<"New Patient", id_phone, id_beacon, key>>
    /\ appPc' = "accept"

\* faulty variants of the comparison
Newer_reversed(new_datetime, database_datetime) == new_datetime < database_datetime
Newer_not_equal(new_datetime, database_datetime) == new_datetime # database_datetime
Newer_always(new_datetime, database_datetime) == TRUE

\* the comparison of AppBackend._decrypt_token
Newer(new_datetime, database_datetime) == new_datetime > database_datetime

\* faulty variant: the registry is indexed without the membership test
invalid_phone_raises(id_phone, ciphertext) ==
    /\ appLog' = <<"New Token", id_phone, ciphertext>>
    /\ appPc' = "dead"
    /\ UNCHANGED <<database, dbKeys, appFile>>

\* the else branch of AppBackend._get_key and the None it returns to
\* _decrypt_token: nothing is decrypted
invalid_phone(id_phone, ciphertext) ==
    /\ appLog' = <<"Invalid Phone", id_phone>>
    /\ UNCHANGED <<database, dbKeys, appFile, appPc>>

\* faulty variant: the datetime is stored for every phone that holds the key
decrypt_token_by_key(id_phone, ciphertext) ==
    IF id_phone \notin DOMAIN database
    THEN invalid_phone(id_phone, ciphertext)
    ELSE LET key == database[id_phone][2]
             plain == Decrypt(key, ciphertext)
         IN  IF ~plain.ok
             THEN /\ appLog' = <<"Invalid Token", id_phone, ciphertext>>
                  /\ UNCHANGED <<database, dbKeys, appFile, appPc>>
             ELSE /\ appLog' = <<"New Token", id_phone, ciphertext>>
                  /\ IF ~IsDatetimeString(plain.data)
                     THEN /\ appPc' = "dead"
                          /\ UNCHANGED <<database, dbKeys, appFile>>
                     ELSE IF Newer(strptime(plain.data), LastSeen(id_phone))
                     THEN /\ database' = [q \in DOMAIN database |->
                                             IF database[q][2] = key
                                             THEN [database[q] EXCEPT ![3] = plain.data]
                                             ELSE database[q]]
                          /\ UNCHANGED <<dbKeys, appPc>>
                          /\ appFile' = json_dump(database', dbKeys')
                     ELSE UNCHANGED <<database, dbKeys, appFile, appPc>>

\* AppBackend._decrypt_token (with _get_key)
decrypt_token(id_phone, ciphertext) ==
    IF id_phone \notin DOMAIN database
    THEN invalid_phone(id_phone, ciphertext)
    ELSE LET key == database[id_phone][2]
             plain == Decrypt(key, ciphertext)
         IN  IF ~plain.ok
             THEN /\ appLog' = <<"Invalid Token", id_phone, ciphertext>>
                  /\ UNCHANGED <<database, dbKeys, appFile, appPc>>
             ELSE /\ appLog' = <<"New Token", id_phone, ciphertext>>
                  /\ IF ~IsDatetimeString(plain.data)
                     THEN \* strptime raises ValueError, which nothing catches
                          /\ appPc' = "dead"
                          /\ UNCHANGED <<database, dbKeys, appFile>>
                     ELSE IF Newer(strptime(plain.data), LastSeen(id_phone))
                     THEN /\ database' = [database EXCEPT ![id_phone][3] = plain.data]
                          /\ UNCHANGED <<dbKeys, appPc>>
                          /\ appFile' = json_dump(database', dbKeys')
                     ELSE UNCHANGED <<database, dbKeys, appFile, appPc>>

\* data[i] of a message too short for it: IndexError, which nothing catches
AppIndexError ==
    /\ appPc' = "dead"
    /\ UNCHANGED <<database, dbKeys, appFile, appLog>>

\* faulty variant: the leading field is not looked at
HasHeader_any(data, header) == TRUE

\* data[0] == header
HasHeader(data, header) == data[1] = header

\* the dispatch of AppBackend.server_session on the message data
AppDispatch(data) ==
    IF HasHeader(data, health_authority_header)
    THEN IF Len(data) < 4 THEN AppIndexError
                          ELSE add_phone(data[2], data[3], data[4])
    ELSE IF HasHeader(data, smartphone_header)
    THEN IF Len(data) < 3 THEN AppIndexError
                          ELSE decrypt_token(data[2], data[3])
    ELSE UNCHANGED appVars

\* one turn of the accept loop of AppBackend.server_session on the message data
AppServerSession(data) ==
    /\ appPc = "accept"
    /\ AppDispatch(data)
    /\ UNCHANGED <<now, ctlVars, authVars, authConn, devVars, netVars>>

\* the messages a client of the App server can send
AppMessages ==
    {<<health_authority_header, p, beacon_list[i], key_list[i]>> :
        p \in Range(phone_list), i \in DOMAIN key_list}
    \cup {<<smartphone_header, p, c>> : p \in Range(phone_list), c \in Ciphertexts}
    \cup {<<smartphone_header, p>> : p \in Range(phone_list)}
    \cup {<<"">>, <<app_header, beacon_list[1]>>}

AppReceive == \E data \in AppMessages : AppServerSession(data)

\* the number of datetimes in the Authority's log
RECURSIVE SumLen(_, _)
SumLen(d, S) ==
    IF S = {} THEN 0
    ELSE LET x == CHOOSE y \in S : TRUE IN Len(d[x]) + SumLen(d, S \ {x})
LogSize == SumLen(log, DOMAIN log)

(* ------------------------- control routine ----------------------------- *)
\* faulty variant: expiry at the tolerance itself
Expired_inclusive(utcnow, expire_dt) == utcnow >= expire_dt

\* the test of AppBackend.control_routine
Expired(utcnow, expire_dt) == utcnow > expire_dt

\* the timer fires: control_routine creates the iterator of its for loop
ControlStart ==
    /\ ctlPc = "idle"
    /\ ctlPc' = "run"
    /\ ctlPos' = 0
    /\ ctlLen' = Len(dbKeys)
    /\ UNCHANGED <<now, appVars, authVars, authConn, devVars, netVars>>

\* faulty variant: a beacon that is already in the ledger is not reported again
client_session_dedup(data) ==
    IF authPc = "dead"
    THEN /\ ctlPc' = "dead"
         /\ ctlPos' = 0
         /\ ctlLen' = 0
         /\ UNCHANGED authConn
    ELSE IF data[2] \in DOMAIN log
    THEN /\ ctlPos' = ctlPos + 1
         /\ UNCHANGED <<ctlPc, ctlLen, authConn>>
    ELSE /\ authConn = <<>>
         /\ LogSize < MaxLog
         /\ authConn' = data
         /\ ctlPos' = ctlPos + 1
         /\ UNCHANGED <<ctlPc, ctlLen>>

\* AppBackend._client_session: blocks until the Authority accepts the connection
\* (the log is capped at MaxLog datetimes)
client_session(data) ==
    IF authPc = "dead"
    THEN \* the connection is refused (or never answered): the exception leaves
         \* control_routine and Demo._control_routine, no timer is started
         /\ ctlPc' = "dead"
         /\ ctlPos' = 0
         /\ ctlLen' = 0
         /\ UNCHANGED authConn
    ELSE /\ authConn = <<>>
         /\ LogSize < MaxLog
         /\ authConn' = data
         /\ ctlPos' = ctlPos + 1
         /\ UNCHANGED <<ctlPc, ctlLen>>

\* one turn of the for loop of AppBackend.control_routine; at its end
\* Demo._control_routine starts the next timer
ControlStep ==
    /\ ctlPc = "run"
    /\ IF Len(dbKeys) # ctlLen
       THEN \* RuntimeError: dictionary changed size during iteration
            /\ ctlPc' = "dead"
            /\ ctlPos' = 0
            /\ ctlLen' = 0
            /\ UNCHANGED authConn
       ELSE IF ctlPos = ctlLen
       THEN /\ ctlPc' = "idle"
            /\ ctlPos' = 0
            /\ ctlLen' = 0
            /\ UNCHANGED authConn
       ELSE LET id_phone == dbKeys[ctlPos + 1]
                id_beacon == database[id_phone][1]
                expire_dt == LastSeen(id_phone) + td_expire
            IN  IF Expired(now, expire_dt)
                THEN client_session(<<app_header, id_beacon>>)
                ELSE /\ ctlPos' = ctlPos + 1
                     /\ UNCHANGED <<ctlPc, ctlLen, authConn>>
    /\ UNCHANGED <<now, appVars, authVars, devVars, netVars>>

(* -------------------------- AuthorityBackend --------------------------- *)
\* faulty variant: a later violation replaces the list of the beacon
add_datetime_reset(id_beacon) ==
    IF id_beacon \notin DOMAIN authDatabase
    THEN /\ authPc' = "dead"
         /\ UNCHANGED <<log, logFile>>
    ELSE /\ log' = Put(log, id_beacon, <<strftime(now)>>)
         /\ logFile' = json_dump(log', KeyOrder(log'))
         /\ UNCHANGED authPc

\* faulty variant: the log is rewritten with the one beacon of the alert
add_datetime_rewrite(id_beacon) ==
    IF id_beacon \notin DOMAIN authDatabase
    THEN /\ authPc' = "dead"
         /\ UNCHANGED <<log, logFile>>
    ELSE /\ log' = Put(EmptyDict, id_beacon,
                       IF id_beacon \notin DOMAIN log THEN <<strftime(now)>>
                       ELSE Append(log[id_beacon], strftime(now)))
         /\ logFile' = json_dump(log', KeyOrder(log'))
         /\ UNCHANGED authPc

\* AuthorityBackend._add_datetime
add_datetime(id_beacon) ==
    IF id_beacon \notin DOMAIN authDatabase
    THEN \* self._database[id_beacon] of the first line raises KeyError
         /\ authPc' = "dead"
         /\ UNCHANGED <<log, logFile>>
    ELSE /\ log' = IF id_beacon \notin DOMAIN log
                   THEN Put(log, id_beacon, <<strftime(now)>>)
                   ELSE [log EXCEPT ![id_beacon] = Append(@, strftime(now))]
         /\ logFile' = json_dump(log', KeyOrder(log'))
         /\ UNCHANGED authPc

\* the dispatch of AuthorityBackend.server_session on the message data
AuthDispatch(data) ==
    IF HasHeader(data, app_header)
    THEN IF Len(data) < 2
         THEN \* data[1]: IndexError, which nothing catches
              /\ authPc' = "dead"
              /\ UNCHANGED <<log, logFile>>
         ELSE add_datetime(data[2])
    ELSE UNCHANGED <<log, logFile, authPc>>

\* one turn of the accept loop of AuthorityBackend.server_session, on the
\* connection of the App backend
AuthServerSession ==
    /\ authPc = "accept"
    /\ authConn # <<>>
    /\ AuthDispatch(authConn)
    /\ authConn' = <<>>
    /\ UNCHANGED <<now, appVars, ctlVars, authDatabase, authFile, devVars, netVars>>

\* AuthorityBackend.add_beacon
add_beacon(id_beacon, info) ==
    /\ authDatabase' = Put(authDatabase, id_beacon, info)
    /\ authFile' = json_dump(authDatabase', KeyOrder(authDatabase'))
    /\ UNCHANGED <<now, appVars, ctlVars, log, logFile, authPc, authConn, devVars, netVars>>

AddBeacon == \E i \in DOMAIN beacon_list : add_beacon(beacon_list[i], info_list[i])

(* ------------------------- beacons and phones -------------------------- *)
\* faulty variant: the beacon stamps the time of a clock of its own, which is ahead
BeaconEncrypt_ahead(i) ==
    /\ beaconOn[header_list[i]]
    /\ packet' = [packet EXCEPT ![header_list[i]] =
                      <<Encrypt(key_list[i], strftime(now + ClockStep))>>]
    /\ UNCHANGED <<now, appVars, ctlVars, authVars, authConn, beaconOn, dataVars, netVars>>

\* SmartBeacon.routine(on=True) of patient i: encrypts the clock into its packet
BeaconEncrypt(i) ==
    /\ beaconOn[header_list[i]]
    /\ packet' = [packet EXCEPT ![header_list[i]] =
                      <<Encrypt(key_list[i], strftime(now))>>]
    /\ UNCHANGED <<now, appVars, ctlVars, authVars, authConn, beaconOn, dataVars, netVars>>

\* SmartBeacon.routine(on=False) of patient i: truncates the packet, draws _on
BeaconOff(i) ==
    /\ packet' = [packet EXCEPT ![header_list[i]] = <<>>]
    /\ \E on \in BOOLEAN : beaconOn' = [beaconOn EXCEPT ![header_list[i]] = on]
    /\ UNCHANGED <<now, appVars, ctlVars, authVars, authConn, dataVars, netVars>>

\* SmartPhone.routine(wifi=True) of patient i: forwards a non-empty packet
PhoneForward(i) ==
    /\ packet[header_list[i]] # <<>>
    /\ AppServerSession(<<smartphone_header, phone_list[i], packet[header_list[i]][1]>>)

\* HealthAuthority.routine for patient i of Demo._health_authority_init
HealthAuthorityRoutine(i) ==
    AppServerSession(<<health_authority_header, phone_list[i], beacon_list[i], key_list[i]>>)

BeaconRoutine == \E i \in DOMAIN header_list : BeaconEncrypt(i) \/ BeaconOff(i)
SmartphoneRoutine == \E i \in DOMAIN phone_list : PhoneForward(i)
HealthAuthorityInit == \E i \in DOMAIN phone_list : HealthAuthorityRoutine(i)

(* --------------------------- specification ----------------------------- *)
Next ==
    \/ AdvanceClock
    \/ AppReceive
    \/ ControlStart
    \/ ControlStep
    \/ AuthServerSession
    \/ AddBeacon

\* the App server open to every client
Spec == Init /\ [][Next]_vars

\* the demo: every message to the App server comes from the Health Authority
\* or from a phone forwarding its beacon's packet
NextDemo ==
    \/ AdvanceClock
    \/ HealthAuthorityInit
    \/ AddBeacon
    \/ BeaconRoutine
    \/ SmartphoneRoutine
    \/ ControlStart
    \/ ControlStep
    \/ AuthServerSession

SpecDemo == Init /\ [][NextDemo]_vars

(* ------------- construction, trust and the client sessions ------------- *)
\* the files that hold a key or a certificate
Files ==
    {keyFile[b] : b \in Backends} \cup {certFile[b] : b \in Backends}
    \cup {caFile[x] : x \in Principals}

\* the number of a key of root that no file holds yet (rsa.generate_private_key)
Fresh(root) ==
    LET used == {f[2] : f \in {g \in Files : Len(g) = 2 /\ g[1] = root}} \cup {0}
    IN  1 + (CHOOSE m \in used : \A n \in used : n <= m)

\* faulty variant: the pair is generated at every construction
NeedsIdentity_always(b) == TRUE

\* the test of Backend.__init__ before _generate_self_signed_certificate
NeedsIdentity(b) == keyFile[b] = NoFile \/ certFile[b] = NoFile

\* the identity files after Backend.__init__ of backend b:
\* _generate_self_signed_certificate writes key.pem and certificate.pem
IdentityAfterInit(b) == IF NeedsIdentity(b) THEN Identity(b, Fresh(b)) ELSE keyFile[b]
CertificateAfterInit(b) == IF NeedsIdentity(b) THEN Identity(b, Fresh(b)) ELSE certFile[b]

\* AppBackend(app_root, ...) of Demo.__init__
ConstructApp ==
    /\ demoPc = "app"
    /\ demoPc' = "auth"
    /\ database' = json_load(appFile)
    /\ dbKeys' = json_keys(appFile)
    /\ keyFile' = [keyFile EXCEPT ![app_root] = IdentityAfterInit(app_root)]
    /\ certFile' = [certFile EXCEPT ![app_root] = CertificateAfterInit(app_root)]
    /\ UNCHANGED <<now, appFile, appPc, appLog, ctlVars, authVars, authConn,
                   devVars, loopVars, caFile, session, runs>>

\* AuthorityBackend(auth_root, ...) of Demo.__init__
ConstructAuthority ==
    /\ demoPc = "auth"
    /\ demoPc' = "trust"
    /\ authDatabase' = json_load(authFile)
    /\ log' = json_load(logFile)
    /\ keyFile' = [keyFile EXCEPT ![auth_root] = IdentityAfterInit(auth_root)]
    /\ certFile' = [certFile EXCEPT ![auth_root] = CertificateAfterInit(auth_root)]
    /\ UNCHANGED <<now, appVars, ctlVars, authFile, logFile, authPc, authConn,
                   devVars, loopVars, caFile, session, runs>>

\* Backend.get_ca_certificate: the certificate is copied only when there is no
\* ca_certificate.pem yet
get_ca_certificate(b, certificate) == IF caFile[b] = NoFile THEN certificate ELSE caFile[b]

\* the two certificate acquisitions of Demo.__init__
ExchangeCertificates ==
    /\ demoPc = "trust"
    /\ demoPc' = "ready"
    /\ caFile' = [x \in Principals |->
                     IF x \in Backends
                     THEN get_ca_certificate(x, certFile[Counterpart(x)])
                     ELSE caFile[x]]
    /\ UNCHANGED <<now, appVars, ctlVars, authVars, authConn, devVars, loopVars,
                   keyFile, certFile, session, runs>>

\* Demo.run: init_execution_log, the two server_session threads and the thread
\* of the control routine
Run ==
    /\ demoPc = "ready"
    /\ demoPc' = "run"
    /\ appLog' = <<>>
    /\ appPc' = "accept"
    /\ authPc' = "accept"
    /\ ctlPc' = "idle"
    /\ ctlPos' = 0
    /\ ctlLen' = 0
    /\ UNCHANGED <<now, database, dbKeys, appFile, authDatabase,
                   authFile, log, logFile, authConn, devVars, loopVars,
                   keyFile, certFile, caFile, session, runs>>

\* the process ends, with all its threads, and the program is started again:
\* the files stay (the dicts of the process that ended are kept until the
\* constructors replace them, to be compared with what they load)
Restart ==
    /\ demoPc = "run"
    /\ runs < MaxRuns
    /\ runs' = runs + 1
    /\ demoPc' = "app"
    /\ appPc' = "dead"
    /\ authPc' = "dead"
    /\ ctlPc' = "dead"
    /\ ctlPos' = 0
    /\ ctlLen' = 0
    /\ authConn' = <<>>
    /\ UNCHANGED <<now, database, dbKeys, appFile, appLog, authDatabase,
                   authFile, log, logFile, devVars, loopVars,
                   keyFile, certFile, caFile, session>>

\* faulty variant: the message is written before the handshake has ended
Delivered_before_handshake(connected, handshake_ok) == connected

\* secure_socket.write is reached only when connect and ssl.wrap_socket returned
Delivered(connected, handshake_ok) == connected /\ handshake_ok

\* HealthAuthority.routine for patient i: Client._client_session with
\* _check_ca_certificate, and the turn of the App accept loop it causes
HealthAuthoritySession(i) ==
    /\ demoPc = "run"
    /\ LET h == health_authority_root
           data == <<health_authority_header, phone_list[i], beacon_list[i], key_list[i]>>
           \* _check_ca_certificate: without a ca_certificate.pem the client asks
           \* the server itself for its certificate, on a connection of its own
           fetch == caFile[h] = NoFile
           fetched == fetch /\ appPc = "accept"
           ca == IF ~fetch THEN caFile[h]
                 ELSE IF fetched THEN certFile[app_root]
                 ELSE EmptyFile
           \* socket.connect of _client_session is reached
           attempt == ~fetch \/ fetched
           connected == attempt /\ appPc = "accept"
           handshake_ok == connected /\ VerifyPeer(certFile[app_root], ca)
           delivered == Delivered(connected, handshake_ok)
       IN  /\ caFile' = [caFile EXCEPT ![h] = ca]
           /\ session' = [client |-> h,
                          fetches |-> IF fetch THEN 1 ELSE 0,
                          connections |-> IF attempt THEN 1 ELSE 0,
                          delivered |-> delivered]
           /\ IF delivered
              THEN AppDispatch(data)
              ELSE \* a connection that the client drops in the handshake ends
                   \* the accept loop
                   /\ appPc' = IF connected THEN "dead" ELSE appPc
                   /\ UNCHANGED <<database, dbKeys, appFile, appLog>>
    /\ UNCHANGED <<now, ctlVars, authVars, authConn, devVars, loopVars,
                   keyFile, certFile, demoPc, runs>>

\* AppBackend._client_session with the alert of a beacon (the log is capped at
\* MaxLog datetimes)
AppClientSession ==
    /\ demoPc = "run"
    /\ authConn = <<>>
    /\ LogSize < MaxLog
    /\ \E b \in Range(beacon_list) :
          LET connected == authPc = "accept"
              handshake_ok ==
                  /\ connected
                  /\ VerifyPeer(certFile[auth_root], caFile[app_root])
                  /\ VerifyPeer(certFile[app_root], caFile[auth_root])
              delivered == Delivered(connected, handshake_ok)
          IN  /\ session' = [client |-> app_root, fetches |-> 0, connections |-> 1,
                             delivered |-> delivered]
              /\ authConn' = IF delivered THEN <<app_header, b>> ELSE <<>>
              /\ authPc' = IF connected /\ ~handshake_ok THEN "dead" ELSE authPc
    /\ UNCHANGED <<now, appVars, ctlVars, authDatabase, authFile, log, logFile,
                   devVars, loopVars, keyFile, certFile, caFile, demoPc, runs>>

HealthAuthorityClient == \E i \in DOMAIN phone_list : HealthAuthoritySession(i)

\* the program is started on a disk that may hold files of earlier runs
InitSetup ==
    /\ now = 0
    /\ database = EmptyDict
    /\ dbKeys = <<>>
    /\ appFile = NoMembers
    /\ appPc = "dead"
    /\ appLog = <<>>
    /\ ctlPc = "dead"
    /\ ctlPos = 0
    /\ ctlLen = 0
    /\ authDatabase = EmptyDict
    /\ authFile = NoMembers
    /\ log = EmptyDict
    /\ logFile = NoMembers
    /\ authPc = "dead"
    /\ authConn = <<>>
    /\ packet = [h \in Range(header_list) |-> <<>>]
    /\ beaconOn = [h \in Range(header_list) |-> TRUE]
    /\ InitDevices
    /\ InitLoop
    /\ keyFile \in [Backends -> {NoFile} \cup {Identity(b, 1) : b \in Backends}]
    /\ certFile \in [Backends -> {NoFile} \cup {Identity(b, 1) : b \in Backends}]
    /\ \A b \in Backends : keyFile[b] \in {NoFile, Identity(b, 1)}
    /\ \A b \in Backends : certFile[b] \in {NoFile, Identity(b, 1)}
    /\ caFile \in [Principals -> {NoFile} \cup {Identity(b, 1) : b \in Backends}]
    /\ \A b \in Backends : caFile[b] \in {NoFile, Identity(Counterpart(b), 1)}
    /\ caFile[health_authority_root] \in {NoFile, Identity(app_root, 1)}
    /\ session = NoSession
    /\ demoPc = "app"
    /\ runs = 1

NextSetup ==
    \/ ConstructApp
    \/ ConstructAuthority
    \/ ExchangeCertificates
    \/ Run
    \/ Restart
    \/ AddBeacon
    \/ HealthAuthorityClient
    \/ AppClientSession
    \/ AuthServerSession

\* the construction of the program, its restarts, and the sessions of its clients
SpecSetup == InitSetup /\ [][NextSetup]_vars

(* ---------------------- the snapshots and restarts --------------------- *)
\* SmartPhone.routine(wifi=True) of patient i with the token its beacon has just
\* encrypted
PhoneToken(i) ==
    AppServerSession(<<smartphone_header, phone_list[i],
                       Encrypt(key_list[i], strftime(now))>>)

SmartphoneTokens == \E i \in DOMAIN phone_list : PhoneToken(i)

\* Demo._health_authority_init registers the beacons while the program runs
AddBeaconRunning == demoPc = "run" /\ AddBeacon

NextStore ==
    \/ AdvanceClock
    \/ HealthAuthorityInit
    \/ SmartphoneTokens
    \/ AddBeaconRunning
    \/ ControlStart
    \/ ControlStep
    \/ AuthServerSession
    \/ Restart
    \/ ConstructApp
    \/ ConstructAuthority
    \/ ExchangeCertificates
    \/ Run

\* the program with its three dicts and their files, ended and started again
SpecStore == Init /\ [][NextStore]_vars

(* ------------------- messages of every number of fields ---------------- *)
\* data.split(separator) of a message that was cut after any of its fields
Prefixes(data) == {SubSeq(data, 1, n) : n \in 1..Len(data)}

\* the messages of the clients of the App server, whole or cut
FieldAppMessages ==
    UNION {Prefixes(<<health_authority_header, phone_list[i], beacon_list[i], key_list[i]>>)
              : i \in DOMAIN phone_list}
    \cup UNION {Prefixes(<<smartphone_header, phone_list[i],
                           Encrypt(key_list[i], strftime(t))>>)
                    : i \in DOMAIN phone_list, t \in Times}

\* the messages of the clients of the Authority server, whole or cut
FieldAuthMessages == UNION {Prefixes(<<app_header, b>>) : b \in Range(beacon_list)}

\* one turn of the accept loop of AppBackend.server_session, from accept() to
\* close(), on a connection that brings the message data
AppTurn(data) ==
    /\ appPc = "accept"
    /\ rcv' = [rcv EXCEPT ![app_root] = data]
    /\ AppDispatch(data)
    /\ UNCHANGED <<now, ctlVars, authVars, authConn, devVars, conn, cur, peer, idVars>>

\* one turn of the accept loop of AuthorityBackend.server_session, from accept()
\* to close(), on a connection that brings the message data (the log is capped
\* at MaxLog datetimes)
AuthTurn(data) ==
    /\ authPc = "accept"
    /\ LogSize < MaxLog
    /\ rcv' = [rcv EXCEPT ![auth_root] = data]
    /\ AuthDispatch(data)
    /\ UNCHANGED <<now, appVars, ctlVars, authDatabase, authFile, authConn, devVars,
                   conn, cur, peer, idVars>>

AppTurns == \E data \in FieldAppMessages : AppTurn(data)
AuthTurns == \E data \in FieldAuthMessages : AuthTurn(data)

NextFields ==
    \/ AdvanceClock
    \/ AddBeacon
    \/ AppTurns
    \/ AuthTurns

\* the two servers with clients whose messages may lack fields
SpecFields == Init /\ [][NextFields]_vars

(* --------------------------- the data routine -------------------------- *)
\* the timer of Demo._data_routine fires (the ticks are capped at MaxTicks)
DataStart ==
    /\ dataPc.at = "timer"
    /\ tick < MaxTicks
    /\ tick' = tick + 1
    /\ dataPc' = [at |-> "beacon", i |-> 1]
    /\ UNCHANGED <<now, appVars, ctlVars, authVars, authConn, packet, beaconOn,
                   packetTick, phoneOn, bluetooth, wifi, phoneLog, relayed, netVars>>

\* SmartBeacon.routine(on=True): the packet is overwritten with a new token
beacon_routine_on(i) ==
    /\ packet' = [packet EXCEPT ![header_list[i]] =
                      <<Encrypt(key_list[i], strftime(now))>>]
    /\ packetTick' = [packetTick EXCEPT ![header_list[i]] = tick]
    /\ UNCHANGED beaconOn

\* faulty variant: a beacon that is off leaves its packet as it is
beacon_routine_off_keep(i) ==
    /\ UNCHANGED <<packet, packetTick>>
    /\ \E on \in BOOLEAN : beaconOn' = [beaconOn EXCEPT ![header_list[i]] = on]

\* SmartBeacon.routine(on=False): the packet is truncated, _on is drawn
beacon_routine_off(i) ==
    /\ packet' = [packet EXCEPT ![header_list[i]] = <<>>]
    /\ packetTick' = [packetTick EXCEPT ![header_list[i]] = tick]
    /\ \E on \in BOOLEAN : beaconOn' = [beaconOn EXCEPT ![header_list[i]] = on]

\* where _data_routine goes after beacon i and after phone i; after the last
\* phone it starts its timer and ends
AfterBeacon(i) ==
    IF i < Len(header_list) THEN [at |-> "beacon", i |-> i + 1]
                            ELSE [at |-> "phone", i |-> 1]
AfterPhone(i) ==
    IF i < Len(phone_list) THEN [at |-> "phone", i |-> i + 1]
                           ELSE [at |-> "timer", i |-> 0]

\* one turn of the loop of Demo._beacon_routine: routine(on=True) needs the
\* beacon on and the draw below beacon_prob
BeaconStep ==
    /\ dataPc.at = "beacon"
    /\ LET i == dataPc.i
       IN  /\ \/ beaconOn[header_list[i]] /\ beacon_routine_on(i)
              \/ beacon_routine_off(i)
           /\ dataPc' = AfterBeacon(i)
    /\ UNCHANGED <<now, appVars, ctlVars, authVars, authConn, tick,
                   phoneOn, bluetooth, wifi, phoneLog, relayed, netVars>>

\* Client._client_session of phone i with the token c, and the turn of the App
\* accept loop it causes; a refused connection raises in the data routine
Relay(i, c, offline) ==
    IF appPc = "accept"
    THEN /\ AppDispatch(<<smartphone_header, phone_list[i], c>>)
         /\ relayed' = [phone |-> phone_list[i], tick |-> tick,
                        made |-> packetTick[header_list[i]], offline |-> offline]
         /\ dataPc' = AfterPhone(i)
    ELSE /\ dataPc' = [at |-> "dead", i |-> 0]
         /\ UNCHANGED <<appVars, relayed>>

\* nothing is sent for phone i
NoRelayStep(i) ==
    /\ dataPc' = AfterPhone(i)
    /\ UNCHANGED <<appVars, relayed>>

\* SmartPhone.routine(wifi=True): the packet of the phone's header (no header of
\* the demo begins with another one), if it is not empty, is forwarded
phone_routine_wifi(i) ==
    /\ UNCHANGED <<wifi, phoneLog>>
    /\ IF packet[header_list[i]] # <<>>
       THEN Relay(i, packet[header_list[i]][1], FALSE)
       ELSE NoRelayStep(i)

\* SmartPhone.routine(wifi=False): the packet is stored in the log, _wifi is
\* drawn, and if it came out on the stored packet is forwarded
phone_routine_offline(i) ==
    LET h == header_list[i]
        p == phone_list[i]
    IN  /\ phoneLog' = IF packet[h] # <<>>
                       THEN [phoneLog EXCEPT ![p] = Put(@, strftime(now), packet[h][1])]
                       ELSE phoneLog
        /\ \E on \in BOOLEAN :
              /\ wifi' = [wifi EXCEPT ![p] = on]
              /\ IF on /\ packet[h] # <<>>
                 THEN Relay(i, packet[h][1], TRUE)
                 ELSE NoRelayStep(i)

\* one turn of the loop of Demo._smartphone_routine: each branch needs its
\* status on and its draw below the probability, the else branches need neither
PhoneStep ==
    /\ dataPc.at = "phone"
    /\ LET i == dataPc.i
           p == phone_list[i]
       IN  \/ /\ phoneOn[p] /\ bluetooth[p] /\ wifi[p]
              /\ phone_routine_wifi(i)
              /\ UNCHANGED <<phoneOn, bluetooth>>
           \/ /\ phoneOn[p] /\ bluetooth[p]
              /\ phone_routine_offline(i)
              /\ UNCHANGED <<phoneOn, bluetooth>>
           \/ /\ phoneOn[p]
              /\ \E on \in BOOLEAN : bluetooth' = [bluetooth EXCEPT ![p] = on]
              /\ NoRelayStep(i)
              /\ UNCHANGED <<phoneOn, wifi, phoneLog>>
           \/ /\ \E on \in BOOLEAN : phoneOn' = [phoneOn EXCEPT ![p] = on]
              /\ NoRelayStep(i)
              /\ UNCHANGED <<bluetooth, wifi, phoneLog>>
    /\ UNCHANGED <<now, ctlVars, authVars, authConn, packet, beaconOn, packetTick,
                   tick, netVars>>

\* the dicts of the App backend after Demo._health_authority_init at time 0
RegisteredAll ==
    [p \in Range(phone_list) |->
        LET i == CHOOSE j \in DOMAIN phone_list : phone_list[j] = p
        IN  <<beacon_list[i], key_list[i], strftime(0)>>]

\* Demo.run is about to start the thread of the data routine: the patients are
\* registered, and beacon_packets may hold the packets of an earlier run
InitData ==
    /\ now = 0
    /\ database = RegisteredAll
    /\ dbKeys = phone_list
    /\ appFile = json_dump(database, dbKeys)
    /\ appPc = "accept"
    /\ appLog = <<"New Patient", phone_list[Len(phone_list)],
                  beacon_list[Len(phone_list)], key_list[Len(phone_list)]>>
    /\ ctlPc = "idle"
    /\ ctlPos = 0
    /\ ctlLen = 0
    /\ authDatabase = [b \in Range(beacon_list) |->
                          info_list[CHOOSE j \in DOMAIN beacon_list : beacon_list[j] = b]]
    /\ authFile = json_dump(authDatabase, KeyOrder(authDatabase))
    /\ log = EmptyDict
    /\ logFile = NoMembers
    /\ authPc = "accept"
    /\ authConn = <<>>
    /\ packet \in [Range(header_list) -> {<<>>} \cup {<<c>> : c \in Ciphertexts}]
    /\ \A i \in DOMAIN header_list :
          packet[header_list[i]] \in {<<>>, <<Encrypt(key_list[i], strftime(0))>>}
    /\ beaconOn = [h \in Range(header_list) |-> TRUE]
    /\ InitDevices
    /\ InitLoop
    /\ InitIdentity

NextData ==
    \/ AdvanceClock
    \/ DataStart
    \/ BeaconStep
    \/ PhoneStep

\* the data routine of the demo, tick after tick
SpecData == InitData /\ [][NextData]_vars

(* ------------------- the accept loops, step by step -------------------- *)
\* the accept loop of backend b has not ended
Alive(b) == IF b = app_root THEN appPc = "accept" ELSE authPc = "accept"

\* the phases of a connection that the accept loop has taken and not closed
InService == {"accepted", "handshaken", "read", "dispatched"}

\* a client connects to the listening socket of backend b; the connection
\* waits in the backlog (it gets the lowest number that is free)
NetConnect(b) ==
    /\ Alive(b)
    /\ \E c \in ConnIds :
          /\ conn[b][c] = "none"
          /\ \A d \in 1..(c - 1) : conn[b][d] # "none"
          /\ conn' = [conn EXCEPT ![b][c] = "pending"]
    /\ UNCHANGED <<now, appVars, ctlVars, authVars, authConn, devVars,
                   cur, rcv, peer, idVars>>

\* faulty variant: a connection is accepted while another one is being served
CanAccept_concurrent(b) == Alive(b)

\* the thread of server_session is at server_socket.accept()
CanAccept(b) == Alive(b) /\ cur[b] = 0

\* server_socket.accept() returns a waiting connection
NetAccept(b) ==
    /\ CanAccept(b)
    /\ \E c \in ConnIds :
          /\ conn[b][c] = "pending"
          /\ conn' = [conn EXCEPT ![b][c] = "accepted"]
          /\ cur' = [cur EXCEPT ![b] = c]
    /\ UNCHANGED <<now, appVars, ctlVars, authVars, authConn, devVars,
                   rcv, peer, idVars>>

\* the certificates a client of the Authority can present: none, the App
\* backend's, somebody else's
ClientCertificates == {NoFile, certFile[app_root], intruder_certificate}

\* ssl.wrap_socket(server_side=True) of AppBackend.server_session: no client
\* certificate is asked for; the handshake fails when the client rejects the
\* server's certificate or does not speak TLS, and the SSLError is not caught
AppHandshake ==
    /\ appPc = "accept"
    /\ cur[app_root] # 0
    /\ conn[app_root][cur[app_root]] = "accepted"
    /\ \E client_ok \in BOOLEAN :
          IF client_ok
          THEN /\ conn' = [conn EXCEPT ![app_root][cur[app_root]] = "handshaken"]
               /\ UNCHANGED appPc
          ELSE /\ appPc' = "dead"
               /\ UNCHANGED conn
    /\ UNCHANGED <<now, database, dbKeys, appFile, appLog, ctlVars, authVars,
                   authConn, devVars, cur, rcv, peer, idVars>>

\* ssl.wrap_socket(server_side=True, cert_reqs=ssl.CERT_REQUIRED, ca_certs=...)
\* of AuthorityBackend.server_session: the client must present the imported
\* certificate, and must itself accept the server's; the SSLError of a failed
\* handshake is not caught
AuthHandshake ==
    /\ authPc = "accept"
    /\ cur[auth_root] # 0
    /\ conn[auth_root][cur[auth_root]] = "accepted"
    /\ \E certificate \in ClientCertificates, client_ok \in BOOLEAN :
          /\ peer' = [peer EXCEPT ![auth_root] = certificate]
          /\ IF client_ok /\ VerifyPeer(certificate, caFile[auth_root])
             THEN /\ conn' = [conn EXCEPT ![auth_root][cur[auth_root]] = "handshaken"]
                  /\ UNCHANGED authPc
             ELSE /\ authPc' = "dead"
                  /\ UNCHANGED conn
    /\ UNCHANGED <<now, appVars, ctlVars, authDatabase, authFile, log, logFile,
                   authConn, devVars, cur, rcv, idVars>>

\* the messages that the clients of this section send to the App server
NetAppMessages ==
    {<<health_authority_header, phone_list[1], beacon_list[1], key_list[1]>>,
     <<smartphone_header, phone_list[1], Encrypt(key_list[1], strftime(ClockStep))>>,
     <<smartphone_header, phone_list[1], Malformed>>,
     <<app_header, beacon_list[1]>>,
     <<"">>}

\* the messages that the clients of this section send to the Authority server
NetAuthMessages ==
    {<<app_header, b>> : b \in Range(beacon_list)}
    \cup {<<smartphone_header, phone_list[1], Malformed>>, <<"">>}

NetMessages(b) == IF b = app_root THEN NetAppMessages ELSE NetAuthMessages

\* secure_socket.read().decode().split(separator)
NetRead(b) ==
    /\ Alive(b)
    /\ cur[b] # 0
    /\ conn[b][cur[b]] = "handshaken"
    /\ \E data \in NetMessages(b) : rcv' = [rcv EXCEPT ![b] = data]
    /\ conn' = [conn EXCEPT ![b][cur[b]] = "read"]
    /\ UNCHANGED <<now, appVars, ctlVars, authVars, authConn, devVars,
                   cur, peer, idVars>>

\* the two if statements of AppBackend.server_session
AppDispatchStep ==
    /\ appPc = "accept"
    /\ cur[app_root] # 0
    /\ conn[app_root][cur[app_root]] = "read"
    /\ AppDispatch(rcv[app_root])
    /\ conn' = IF appPc' = "dead" THEN conn
                ELSE [conn EXCEPT ![app_root][cur[app_root]] = "dispatched"]
    /\ UNCHANGED <<now, ctlVars, authVars, authConn, devVars, cur, rcv, peer, idVars>>

\* the if statement of AuthorityBackend.server_session (the log is capped at
\* MaxLog datetimes)
AuthDispatchStep ==
    /\ authPc = "accept"
    /\ cur[auth_root] # 0
    /\ conn[auth_root][cur[auth_root]] = "read"
    /\ LogSize < MaxLog
    /\ AuthDispatch(rcv[auth_root])
    /\ conn' = IF authPc' = "dead" THEN conn
                ELSE [conn EXCEPT ![auth_root][cur[auth_root]] = "dispatched"]
    /\ UNCHANGED <<now, appVars, ctlVars, authDatabase, authFile, authConn, devVars,
                   cur, rcv, peer, idVars>>

\* secure_socket.close(), and back to server_socket.accept()
NetClose(b) ==
    /\ Alive(b)
    /\ cur[b] # 0
    /\ conn[b][cur[b]] = "dispatched"
    /\ conn' = [conn EXCEPT ![b][cur[b]] = "none"]
    /\ cur' = [cur EXCEPT ![b] = 0]
    /\ rcv' = [rcv EXCEPT ![b] = <<>>]
    /\ peer' = [peer EXCEPT ![b] = NoFile]
    /\ UNCHANGED <<now, appVars, ctlVars, authVars, authConn, devVars, idVars>>

Connect == \E b \in Backends : NetConnect(b)
Accept == \E b \in Backends : NetAccept(b)
Read == \E b \in Backends : NetRead(b)
Close == \E b \in Backends : NetClose(b)

NextNet ==
    \/ AddBeacon
    \/ Connect
    \/ Accept
    \/ AppHandshake
    \/ AuthHandshake
    \/ Read
    \/ AppDispatchStep
    \/ AuthDispatchStep
    \/ Close

\* the two servers open to every client, their accept loops statement by
\* statement, at one reading of the clock
SpecNet == Init /\ [][NextNet]_vars

(* ======================================================================= *)
(*                               The claims                                *)
(* ======================================================================= *)
PhoneIds == Range(phone_list)
BeaconIds == Range(beacon_list)
Keys == Range(key_list)

\* observe(p, c) for a registered p: the accept loop handles the Smartphone
\* message (p, c); it always writes the log line that names p and c, so the
\* ciphertext of the step is read from that line
Ciphertext == appLog'[3]
Observe(p) ==
    /\ p \in DOMAIN database
    /\ Len(appLog') = 3 /\ appLog'[2] = p
    /\ AppServerSession(<<smartphone_header, p, Ciphertext>>)

\* register(p, b, k): the accept loop handles the HealthAuthority message
\* (p, b, k); the first conjunct follows from the second
Register(p, b, k) ==
    /\ appLog' = <<"New Patient", p, b, k>>
    /\ AppServerSession(<<health_authority_header, p, b, k>>)

\* c is a token of key k that carries a datetime
ValidToken(c, k) == c.key = k /\ IsDatetimeString(c.data)

Max(a, b) == IF a >= b THEN a ELSE b

IsPrefix(s, t) == Len(s) <= Len(t) /\ \A i \in 1..Len(s) : s[i] = t[i]

\* the detection tick is about to evaluate p
Evaluating(p) ==
    /\ ctlPc = "run"
    /\ Len(dbKeys) = ctlLen
    /\ ctlPos < ctlLen
    /\ dbKeys[ctlPos + 1] = p

\* now - lastSeen > tolerance
Stale(p) == now - LastSeen(p) > td_expire

\* C1: for a registered phoneId, every observe call leaves the stored lastSeen
\* greater than or equal to what it was before the call, whatever the token.
C1_LastSeenNonDecreasing ==
    [][\A p \in PhoneIds :
          Observe(p)
          => /\ p \in DOMAIN database'
             /\ strptime(database'[p][3]) >= strptime(database[p][3])]_vars

\* an observe call has moved a lastSeen ahead of the clock and of its registration
C1_Witness ==
    \E p \in DOMAIN database :
        /\ Len(appLog) = 3 /\ appLog[1] = "New Token" /\ appLog[2] = p
        /\ IsDatetimeString(appLog[3].data)
        /\ LastSeen(p) = strptime(appLog[3].data)
        /\ LastSeen(p) > now

\* C2: a tick step that evaluates a subject hands an alert for its beaconId to
\* the client session if and only if now - lastSeen > tolerance at that moment
\* (the Authority then receives it, or the session raises when the Authority is
\* gone); a subject within the tolerance gets no alert, and no alert reaches the
\* Authority otherwise.
C2_AlertIffStale ==
    [][/\ \A p \in PhoneIds :
            (Evaluating(p) /\ ControlStep) =>
                IF Stale(p)
                THEN IF authPc = "accept"
                     THEN authConn' = <<app_header, database[p][1]>> /\ ctlPc' = "run"
                     ELSE authConn' = authConn /\ ctlPc' = "dead"
                ELSE authConn' = authConn /\ ctlPc' = "run" /\ ctlPos' = ctlPos + 1
       /\ (authConn' # authConn /\ authConn' # <<>>) =>
            \E p \in PhoneIds :
                /\ Evaluating(p) /\ Stale(p)
                /\ authConn' = <<app_header, database[p][1]>>]_vars

\* a tick has evaluated a first subject that was stale (its alert is with the
\* Authority) and is about to evaluate a second one that a token has kept fresh
C2_Witness ==
    /\ ctlPc = "run" /\ ctlPos = 1 /\ ctlLen = 2 /\ Len(dbKeys) = 2
    /\ Stale(dbKeys[1])
    /\ authConn = <<app_header, database[dbKeys[1]][1]>>
    /\ ~Stale(dbKeys[2])
    /\ now - LastSeen(dbKeys[2]) = td_expire

\* C3: for a registered phoneId with key K, a token encrypted under another key
\* is classified as an invalid token, and the record, the registry and the
\* persisted snapshot are after the call what they were before it.
C3_WrongKeyRejected ==
    [][\A p \in PhoneIds :
          (/\ Observe(p)
           /\ Ciphertext.key \in Keys /\ Ciphertext.key # database[p][2])
          => /\ appLog'[1] = "Invalid Token"
             /\ database' = database
             /\ dbKeys' = dbKeys
             /\ appFile' = appFile
             /\ appPc' = "accept"]_vars

\* the last message was a datetime token of the other key for a registered phone
C3_Witness ==
    \E p \in DOMAIN database :
        /\ Len(appLog) = 3 /\ appLog[1] = "Invalid Token" /\ appLog[2] = p
        /\ appLog[3].key \in Keys /\ appLog[3].key # database[p][2]
        /\ IsDatetimeString(appLog[3].data)
        /\ strptime(appLog[3].data) > LastSeen(p)
        /\ json_load(appFile) = database

\* C4: a Smartphone message with a malformed ciphertext for a registered phoneId
\* leaves its lastSeen unchanged, is classified as an invalid token, and leaves
\* the accept loop accepting.
C4_MalformedRejected ==
    [][\A p \in PhoneIds :
          (Observe(p) /\ Ciphertext = Malformed)
          => /\ appLog'[1] = "Invalid Token"
             /\ database' = database
             /\ appFile' = appFile
             /\ appPc' = "accept"]_vars

\* the last message was a malformed ciphertext for a registered phone, and the
\* accept loop is accepting
C4_Witness ==
    \E p \in DOMAIN database :
        /\ appLog = <<"Invalid Token", p, Malformed>>
        /\ appPc = "accept"
        /\ LastSeen(p) < now

\* C5: register on a phoneId that is already registered replaces its whole
\* record by the new beaconId, the new key and the time of this registration,
\* and leaves the records of the other phoneIds as they were.
C5_RegisterOverwrites ==
    [][\A p \in PhoneIds, i \in DOMAIN key_list :
          (p \in DOMAIN database /\ Register(p, beacon_list[i], key_list[i]))
          => /\ DOMAIN database' = DOMAIN database
             /\ Len(database'[p]) = 3
             /\ database'[p][1] = beacon_list[i]
             /\ database'[p][2] = key_list[i]
             /\ strptime(database'[p][3]) = now
             /\ \A q \in DOMAIN database \ {p} : database'[q] = database[q]
             /\ json_load(appFile') = database']_vars

\* the phone registered first has just been registered again, later, for
\* another beacon and key than the ones of the other phone's time
C5_Witness ==
    /\ Len(dbKeys) = 2
    /\ appLog = <<"New Patient", dbKeys[1], beacon_list[2], key_list[2]>>
    /\ database[dbKeys[1]] = <<beacon_list[2], key_list[2], strftime(now)>>
    /\ LastSeen(dbKeys[2]) < now

\* the datetimes recorded for b plus the alert for b that the Authority has accepted
LogLen(b) == IF b \in DOMAIN log THEN Len(log[b]) ELSE 0
Count(b) == LogLen(b) + (IF authConn = <<app_header, b>> THEN 1 ELSE 0)

\* p is the one registered phone, for beacon b, which the Authority knows, and
\* the Authority is reachable
OnePhone(p, b) ==
    /\ DOMAIN database = {p}
    /\ database[p][1] = b
    /\ b \in DOMAIN authDatabase
    /\ authPc = "accept"

\* C6: with one phone registered for a beacon the Authority knows, and the
\* Authority reachable, the tick step that finds the phone stale puts exactly one
\* alert on its way, which the Authority turns into exactly one new datetime of
\* that beacon; a tick step that finds the phone fresh, and every other step,
\* adds none.
C6_OneEntryPerStaleTick ==
    [][\A p \in PhoneIds, b \in BeaconIds :
          OnePhone(p, b) =>
            /\ Count(b)' = Count(b)
                    + (IF Evaluating(p) /\ Stale(p) /\ ControlStep THEN 1 ELSE 0)
            /\ (Evaluating(p) /\ ControlStep) => log' = log
            /\ (authConn = <<app_header, b>> /\ AuthServerSession)
                   => /\ b \in DOMAIN log'
                      /\ Len(log'[b]) = LogLen(b) + 1
                      /\ authConn' = <<>>]_vars

\* one phone, one stale tick that has ended, one datetime in the ledger
C6_Witness ==
    \E p \in PhoneIds, b \in BeaconIds :
        /\ OnePhone(p, b)
        /\ Stale(p)
        /\ ctlPc = "idle"
        /\ authConn = <<>>
        /\ DOMAIN log = {b}
        /\ Len(log[b]) = 1

C8_LastSeenIsMax ==
    [][\A p \in PhoneIds :
          (Observe(p) /\ ValidToken(Ciphertext, database[p][2]))
          => /\ strptime(database'[p][3]) =
                    Max(LastSeen(p), strptime(Ciphertext.data))
             /\ \A q \in DOMAIN database \ {p} : database'[q] = database[q]
             /\ appLog'[1] = "New Token"
             /\ appPc' = "accept"
             /\ strptime(Ciphertext.data) <= LastSeen(p)
                    => database' = database /\ appFile' = appFile]_vars

\* the last message was a valid token older than the lastSeen that an earlier
\* token had set
C8_Witness ==
    \E p \in DOMAIN database :
        /\ Len(appLog) = 3 /\ appLog[1] = "New Token" /\ appLog[2] = p
        /\ ValidToken(appLog[3], database[p][2])
        /\ strptime(appLog[3].data) < LastSeen(p)
        /\ LastSeen(p) > now
        /\ appPc = "accept"

\* a step changes the lastSeen of p through a valid token newer than it
ByNewerToken(p) ==
    /\ Observe(p)
    /\ ValidToken(Ciphertext, database[p][2])
    /\ strptime(Ciphertext.data) > LastSeen(p)
    /\ database'[p][3] = Ciphertext.data

\* C9 as stated: once a record exists, its lastSeen is changed only by a valid
\* token with a strictly greater datetime.
C9_OnlyTokensChangeLastSeen ==
    [][\A p \in PhoneIds :
          p \in DOMAIN database =>
            /\ p \in DOMAIN database'
            /\ database'[p][3] # database[p][3] => ByNewerToken(p)]_vars

\* C9 as amended: once a record exists, its lastSeen is changed only by a valid
\* token with a strictly greater datetime, or by a new registration of the same
\* phoneId, which sets it to the time of that registration.
C9_TokensOrRegistration ==
    [][\A p \in PhoneIds :
          p \in DOMAIN database =>
            /\ p \in DOMAIN database'
            /\ database'[p][3] # database[p][3] =>
                 \/ ByNewerToken(p)
                 \/ /\ strptime(database'[p][3]) = now
                    /\ \E i \in DOMAIN key_list :
                           Register(p, beacon_list[i], key_list[i])]_vars

\* the phone registered first has been registered again, after the clock moved
\* and while the other phone's lastSeen is ahead of the clock; a tick is
\* running; its lastSeen is the time of that registration
C9_Witness ==
    /\ Len(dbKeys) = 2
    /\ ctlPc = "run"
    /\ now > 0
    /\ Len(appLog) = 4 /\ appLog[1] = "New Patient" /\ appLog[2] = dbKeys[1]
    /\ LastSeen(dbKeys[1]) = now
    /\ LastSeen(dbKeys[2]) > now

\* C10: the ledger only grows: a step leaves the list of every beacon as a
\* prefix of its new list, and a list that appears holds one datetime.
C10_LedgerAppendOnly ==
    [][/\ \A b \in DOMAIN log :
            /\ b \in DOMAIN log'
            /\ IsPrefix(log[b], log'[b])
       /\ \A b \in DOMAIN log' \ DOMAIN log : Len(log'[b]) = 1
       /\ log' # log =>
            \E b \in DOMAIN log' :
                /\ Len(log'[b]) = LogLen(b) + 1
                /\ \A x \in DOMAIN log' \ {b} : x \in DOMAIN log /\ log'[x] = log[x]]_vars

\* a second violation of a beacon has been appended to its list
C10_Witness ==
    \E b \in DOMAIN log :
        /\ Len(log[b]) = 2
        /\ json_load(logFile) = log

\* C11: an App alert for a beaconId that is not in the Authority's database is
\* dropped: the ledger and its file are unchanged and the Authority accept loop
\* goes on accepting.
C11_UnknownBeaconDropped ==
    [][(/\ authConn # <<>>
        /\ authConn[1] = app_header
        /\ authConn[2] \notin DOMAIN authDatabase
        /\ AuthServerSession)
       => /\ log' = log
          /\ logFile' = logFile
          /\ authPc' = "accept"]_vars

\* the Authority accept loop has ended on the alert of a registered, stale phone
\* whose beacon the Authority does not know
C11_Witness ==
    /\ authPc = "dead"
    /\ authConn = <<>>
    /\ \E p \in DOMAIN database : Stale(p) /\ database[p][1] \notin DOMAIN authDatabase

\* C14: the detection timer reschedules itself after every tick, also after a
\* tick in which sending an alert failed: the tick step whose send fails
\* (Authority unreachable) does not end the timer worker.
C14_TickAlwaysReschedules ==
    [][\A p \in PhoneIds :
          (Evaluating(p) /\ Stale(p) /\ authPc = "dead" /\ ControlStep)
          => ctlPc' # "dead"]_vars

\* the timer worker has ended while the only registered phone is stale
C14_Witness ==
    /\ ctlPc = "dead"
    /\ authPc = "dead"
    /\ Len(dbKeys) = 1
    /\ Stale(dbKeys[1])

\* C17: a Smartphone message for a phoneId that is not in the registry is
\* logged as an invalid phone and dropped, whatever its ciphertext: nothing is
\* decrypted, no record is created or changed, the snapshot is unchanged, and
\* the accept loop goes on accepting.
C17_UnknownPhoneDropped ==
    [][\A p \in PhoneIds :
          (/\ p \notin DOMAIN database
           /\ \E c \in Ciphertexts : AppServerSession(<<smartphone_header, p, c>>))
          => /\ appLog' = <<"Invalid Phone", p>>
             /\ database' = database
             /\ dbKeys' = dbKeys
             /\ appFile' = appFile
             /\ appPc' = "accept"]_vars

\* the last message was a Smartphone message of a phone that is not registered,
\* while the other phone is; the registry and its snapshot hold that one record
C17_Witness ==
    \E p \in PhoneIds :
        /\ appLog = <<"Invalid Phone", p>>
        /\ p \notin DOMAIN database
        /\ Cardinality(DOMAIN database) = 1
        /\ json_load(appFile) = database
        /\ appPc = "accept"

\* C19: the detector keeps no memory of the alerts it has sent: every tick step
\* that evaluates a stale subject while the Authority is reachable puts one more
\* alert for its beacon on its way, whatever the number of alerts and datetimes
\* there already are for that beacon, and the Authority appends one datetime for
\* every alert of a beacon it knows; n stale ticks give n alerts and n datetimes.
C19_NoDeduplication ==
    [][/\ \A p \in PhoneIds :
            (Evaluating(p) /\ Stale(p) /\ authPc = "accept" /\ ControlStep)
            => /\ authConn' = <<app_header, database[p][1]>>
               /\ Count(database[p][1])' = Count(database[p][1]) + 1
               /\ log' = log
               /\ ctlPc' = "run"
       /\ \A b \in DOMAIN authDatabase :
            (authConn = <<app_header, b>> /\ AuthServerSession)
            => /\ b \in DOMAIN log'
               /\ Len(log'[b]) = LogLen(b) + 1
               /\ Count(b)' = Count(b)
               /\ authPc' = "accept"]_vars

\* the one phone, registered at time 0 and never seen since, has been found stale
\* by two ticks, and each of them has added a datetime for its beacon
C19_Witness ==
    \E p \in PhoneIds, b \in BeaconIds :
        /\ OnePhone(p, b)
        /\ LastSeen(p) = 0
        /\ Stale(p)
        /\ ctlPc = "idle"
        /\ authConn = <<>>
        /\ DOMAIN log = {b}
        /\ Len(log[b]) = 2

\* C12: each backend dispatches a received message on its leading tag to at
\* most one handler: the App backend HealthAuthority to register and Smartphone
\* to observe, the Authority backend App to the recording of the violation; a
\* message with another leading tag leaves the registry, the ledger and the
\* snapshots as they were, and no backend touches the other's state.
C12_DispatchByTag ==
    [][/\ AppDispatchStep =>
            /\ UNCHANGED <<authDatabase, authFile, log, logFile, authPc>>
            /\ IF rcv[app_root][1] = health_authority_header
               THEN appLog' = <<"New Patient", rcv[app_root][2],
                                rcv[app_root][3], rcv[app_root][4]>>
               ELSE IF rcv[app_root][1] = smartphone_header
               THEN /\ Len(appLog') >= 2
                    /\ appLog'[1] \in {"New Token", "Invalid Token", "Invalid Phone"}
                    /\ appLog'[2] = rcv[app_root][2]
                    /\ DOMAIN database' = DOMAIN database
                    /\ dbKeys' = dbKeys
               ELSE UNCHANGED appVars
       /\ AuthDispatchStep =>
            /\ UNCHANGED <<appVars, authDatabase, authFile>>
            /\ IF rcv[auth_root][1] = app_header
               THEN rcv[auth_root][2] \in DOMAIN authDatabase
                    => /\ DOMAIN log' = DOMAIN log \cup {rcv[auth_root][2]}
                       /\ Len(log'[rcv[auth_root][2]]) = LogLen(rcv[auth_root][2]) + 1
               ELSE UNCHANGED <<log, logFile, authPc>>]_vars

\* both backends have dispatched a message with a tag that is not theirs, the
\* App backend with a phone in its registry and the Authority with a datetime
\* in its ledger
C12_Witness ==
    /\ cur[app_root] # 0 /\ conn[app_root][cur[app_root]] = "dispatched"
    /\ rcv[app_root] = <<app_header, beacon_list[1]>>
    /\ DOMAIN database # {}
    /\ cur[auth_root] # 0 /\ conn[auth_root][cur[auth_root]] = "dispatched"
    /\ rcv[auth_root][1] = smartphone_header
    /\ LogSize = 1

\* C13: a TLS handshake that fails on a server-side connection ends only that
\* connection: the accept loop of that backend keeps running and is back at
\* accept for the next connection.
C13_HandshakeFailureIsLocal ==
    [][/\ (AppHandshake /\ conn'[app_root][cur[app_root]] # "handshaken")
            => appPc' = "accept"
       /\ (AuthHandshake /\ conn'[auth_root][cur[auth_root]] # "handshaken")
            => authPc' = "accept"]_vars

\* the Authority accept loop has ended in the handshake with a client that
\* presented no certificate, with the next connection waiting; the App accept
\* loop has ended in the handshake of a client too
C13_Witness ==
    /\ authPc = "dead"
    /\ cur[auth_root] # 0 /\ conn[auth_root][cur[auth_root]] = "accepted"
    /\ peer[auth_root] = NoFile
    /\ \E c \in ConnIds : conn[auth_root][c] = "pending"
    /\ appPc = "dead"
    /\ cur[app_root] # 0 /\ conn[app_root][cur[app_root]] = "accepted"

\* C15: only a client that presented the certificate the Authority imported
\* as its trusted peer can cause an append to the ledger: the ledger changes
\* only in the dispatch of a connection whose handshake verified that
\* certificate, and a connection of any other client never gets past the
\* handshake.
C15_OnlyTrustedClientAppends ==
    [][/\ log' # log =>
            /\ AuthDispatchStep
            /\ conn[auth_root][cur[auth_root]] = "read"
            /\ peer[auth_root] = certFile[app_root]
            /\ caFile[auth_root] = certFile[app_root]
       /\ \A c \in ConnIds :
            conn'[auth_root][c] \in {"handshaken", "read", "dispatched"}
            => /\ peer'[auth_root] # NoFile
               /\ peer'[auth_root] = caFile'[auth_root]]_vars

\* after the alert of a trusted client was recorded, a client with another
\* certificate connected: its connection ended in the handshake and the ledger
\* holds the one datetime
C15_Witness ==
    /\ authPc = "dead"
    /\ cur[auth_root] # 0 /\ conn[auth_root][cur[auth_root]] = "accepted"
    /\ peer[auth_root] = intruder_certificate
    /\ DOMAIN authDatabase = BeaconIds
    /\ LogSize = 1
    /\ json_load(logFile) = log

\* the order in which the accept loop takes a connection through its phases
PhaseOrder ==
    {<<"none", "pending">>, <<"pending", "accepted">>, <<"accepted", "handshaken">>,
     <<"handshaken", "read">>, <<"read", "dispatched">>, <<"dispatched", "none">>}

\* C16: each accept loop serves one connection at a time, in the order
\* handshake, read, dispatch, close, and accepts a connection only when none is
\* being served; the state of a backend changes from network input only in the
\* dispatch of the one connection being served.
C16_OneConnectionAtATime ==
    [][\A b \in Backends :
          /\ Cardinality({c \in ConnIds : conn'[b][c] \in InService}) <= 1
          /\ \A c \in ConnIds :
                /\ conn'[b][c] # conn[b][c] => <<conn[b][c], conn'[b][c]>> \in PhaseOrder
                /\ (conn[b][c] = "pending" /\ conn'[b][c] = "accepted")
                       => \A d \in ConnIds : conn[b][d] \notin InService
                /\ conn'[b][c] \in InService => cur'[b] = c
          /\ (b = app_root /\ <<database, dbKeys, appFile, appLog>>' #
                                <<database, dbKeys, appFile, appLog>>)
                => cur[b] # 0 /\ conn[b][cur[b]] = "read"
          /\ (b = auth_root /\ <<log, logFile>>' # <<log, logFile>>)
                => cur[b] # 0 /\ conn[b][cur[b]] = "read"]_vars

\* in both backends a connection has been read and waits for its dispatch while
\* another client's connection waits in the backlog
C16_Witness ==
    \A b \in Backends :
        /\ Alive(b)
        /\ cur[b] # 0 /\ conn[b][cur[b]] = "read"
        /\ \E c \in ConnIds : conn[b][c] = "pending"

\* the step is the construction of backend b
Constructs(b) == IF b = app_root THEN ConstructApp ELSE ConstructAuthority

\* C18 as stated: a key or a certificate that exists on disk is never
\* overwritten (so a pair that exists is left as it is, and every construction
\* after the first yields the identity of the first).
C18_NeverOverwritten ==
    [][\A b \in Backends :
          /\ keyFile[b] # NoFile => keyFile'[b] = keyFile[b]
          /\ certFile[b] # NoFile => certFile'[b] = certFile[b]]_vars

\* C18 as amended: a key and certificate that both exist are left as they are
\* by every step, the construction of their backend included, so every
\* construction after the first yields the identity of the first; the files
\* change only in a construction that finds one of the two missing, which
\* writes a new key and a new certificate, over the one that exists.
C18_PairNeverRegenerated ==
    [][\A b \in Backends :
          /\ (keyFile[b] # NoFile /\ certFile[b] # NoFile)
                => keyFile'[b] = keyFile[b] /\ certFile'[b] = certFile[b]
          /\ Constructs(b)
                => /\ keyFile'[b] # NoFile
                   /\ certFile'[b] = keyFile'[b]
          /\ <<keyFile[b], certFile[b]>>' # <<keyFile[b], certFile[b]>>
                => /\ Constructs(b)
                   /\ keyFile[b] = NoFile \/ certFile[b] = NoFile
                   /\ keyFile'[b] \notin Files
                   /\ certFile'[b] \notin Files]_vars

\* the program runs for the second time; the first construction of the App
\* backend found one file of the pair and wrote a second identity, the first
\* construction of the Authority wrote its first one, and the second
\* constructions have left both as they were
C18_Witness ==
    /\ runs = 2
    /\ demoPc = "run"
    /\ keyFile[app_root] = Identity(app_root, 2)
    /\ certFile[app_root] = Identity(app_root, 2)
    /\ keyFile[auth_root] = Identity(auth_root, 1)
    /\ certFile[auth_root] = Identity(auth_root, 1)

\* the step is a client session
ClientSessionStep == AppClientSession \/ HealthAuthorityClient

\* the trusted certificate that the session of the step verifies the server
\* against, and the certificate of the server
TrustedBy(client) == caFile'[client]
ServerOf(client) == IF client = app_root THEN auth_root ELSE app_root

\* the message is written only after a handshake in which the client has
\* validated the server's certificate against its ca_certificate (and the
\* Authority the App's); a session that fails delivers nothing
DeliveryOnlyAfterHandshake ==
    LET client == session'.client
        server == ServerOf(client)
    IN  /\ session'.connections <= 1
        /\ session'.delivered
              => /\ session'.connections = 1
                 /\ Alive(server)
                 /\ certFile[server] # NoFile
                 /\ certFile[server] = TrustedBy(client)
                 /\ client = app_root => certFile[app_root] = caFile[auth_root]
                 /\ client = app_root => authConn' # <<>>
                 /\ client # app_root => Len(appLog') = 4 /\ appLog'[1] = "New Patient"
        /\ ~session'.delivered
              => /\ UNCHANGED <<database, dbKeys, appFile, appLog>>
                 /\ UNCHANGED <<authConn, log, logFile>>

\* C20 as stated: a client session makes exactly one connection attempt, and
\* writes the message only after handshake and validation have succeeded.
C20_OneConnectionPerCall ==
    [][ClientSessionStep
       => /\ session'.fetches + session'.connections = 1
          /\ DeliveryOnlyAfterHandshake]_vars

\* C20 as amended: a client session makes at most one connection attempt for its
\* message, never a second one, and writes the message only after handshake and
\* validation have succeeded; a HealthAuthority or SmartPhone client that has
\* no ca_certificate file makes one more connection before it, on which it
\* fetches the certificate that it then validates the server against.
C20_OneDeliveryAttempt ==
    [][ClientSessionStep
       => /\ session'.fetches =
                 (IF session'.client # app_root /\ caFile[session'.client] = NoFile
                  THEN 1 ELSE 0)
          /\ session'.fetches + session'.connections \in {1, 2}
          /\ session'.fetches + session'.connections = 2
                 => Alive(ServerOf(session'.client))
          /\ DeliveryOnlyAfterHandshake]_vars

\* the Health Authority holds a certificate of the App backend that is not
\* the one the server presents: its session made one connection, the handshake
\* failed, nothing was registered and nothing was tried again
C20_Witness ==
    /\ session = [client |-> health_authority_root, fetches |-> 0,
                  connections |-> 1, delivered |-> FALSE]
    /\ caFile[health_authority_root] = Identity(app_root, 1)
    /\ certFile[app_root] = Identity(app_root, 2)
    /\ database = EmptyDict
    /\ appPc = "dead"

\* every file holds the dict it is the snapshot of
Mirrored ==
    /\ json_load(appFile) = database
    /\ json_keys(appFile) = dbKeys
    /\ json_load(authFile) = authDatabase
    /\ json_load(logFile) = log

\* C21: between two handlers each snapshot (database.json of the App backend,
\* database.json and log.json of the Authority) equals the dict it mirrors, in
\* content and in order, and the constructors of a program that is started
\* again load exactly the dicts that the ended one had.
C21_SnapshotMirrorsMemory ==
    /\ []Mirrored
    /\ [][/\ ConstructApp => database' = database /\ dbKeys' = dbKeys
          /\ ConstructAuthority => authDatabase' = authDatabase /\ log' = log]_vars

\* the second run of the program has written no line yet: its registry holds
\* both phones in the order of their registration, one with a datetime that
\* a token brought, and its ledger holds an alert, all loaded from the files
C21_Witness ==
    /\ runs = 2
    /\ demoPc = "run"
    /\ appLog = <<>>
    /\ dbKeys = <<phone_list[2], phone_list[1]>>
    /\ LastSeen(phone_list[1]) = ClockStep
    /\ LastSeen(phone_list[2]) = 0
    /\ DOMAIN authDatabase = BeaconIds
    /\ LogSize = 1
    /\ Mirrored

\* C22: a detection tick during which the accept loop registers a new phoneId
\* (the Authority being reachable) does not fail: its next step goes on to the
\* next subject or ends the tick, and then the timer of the next tick is started.
C22_TickSurvivesRegistration ==
    [][(/\ ctlPc = "run"
        /\ Len(dbKeys) > ctlLen
        /\ authPc = "accept"
        /\ ctlVars' # ctlVars)
       => ctlPc' \in {"run", "idle"}]_vars

\* the thread of the control routine has ended although the Authority is
\* reachable: a phone was registered while the tick was going over the registry
C22_Witness ==
    /\ ctlPc = "dead"
    /\ authPc = "accept"
    /\ Len(dbKeys) = 2
    /\ appLog[1] = "New Patient"

\* the number of fields that the handler of a tag reads after the tag
Required(tag) ==
    IF tag = health_authority_header THEN 3
    ELSE IF tag = smartphone_header THEN 2
    ELSE IF tag = app_header THEN 1
    ELSE 0

\* the message has fewer fields after its tag than the tag requires
Short(data) == Len(data) - 1 < Required(data[1])

\* C23: a message with a recognized tag and fewer fields than the tag requires
\* fails alone: the turn of the accept loop that reads it changes no record and
\* no ledger entry, and the loop is at accept for the next connection.
C23_ShortMessageIsLocal ==
    [][/\ AppTurns /\ Short(rcv'[app_root])
            => /\ UNCHANGED <<database, dbKeys, appFile>>
               /\ appPc' = "accept"
       /\ AuthTurns /\ Short(rcv'[auth_root])
            => /\ UNCHANGED <<log, logFile>>
               /\ authPc' = "accept"]_vars

\* both accept loops have ended on a message that had its tag and lacked a
\* field: the App backend with a phone registered, the Authority with a
\* violation in its ledger
C23_Witness ==
    /\ appPc = "dead"
    /\ rcv[app_root] = <<smartphone_header, phone_list[1]>>
    /\ DOMAIN database # {}
    /\ authPc = "dead"
    /\ rcv[auth_root] = <<app_header>>
    /\ LogSize = 1

\* C24: with every token encrypted by a beacon from the one clock, the lastSeen
\* of every subject is at most the current time, in every reachable state.
C24_LastSeenNotAfterNow ==
    \A p \in DOMAIN database : LastSeen(p) <= now

\* the clock has advanced twice; the App backend has just taken a token that
\* brought one phone to the current time, and the other phone is behind
C24_Witness ==
    /\ now = 2 * ClockStep
    /\ Len(appLog) = 3 /\ appLog[1] = "New Token"
    /\ \E p, q \in DOMAIN database :
          /\ appLog[2] = p
          /\ LastSeen(p) = now
          /\ LastSeen(q) < now

\* C25: observe(P, ciphertext) changes at most the lastSeen of P's record: the
\* set and order of the records, P's beaconId and key, and the record of every
\* other phoneId stay, also of a phoneId that is registered with P's key.
C25_ObserveFrame ==
    [][\A p \in PhoneIds :
          Observe(p)
          => /\ DOMAIN database' = DOMAIN database
             /\ dbKeys' = dbKeys
             /\ database'[p][1] = database[p][1]
             /\ database'[p][2] = database[p][2]
             /\ \A q \in DOMAIN database \ {p} : database'[q] = database[q]]_vars

\* two phones are registered with one key; the token that the App backend has
\* just taken for one of them moved its lastSeen, and the other one is behind
C25_Witness ==
    \E p, q \in DOMAIN database :
        /\ p # q
        /\ database[p][2] = database[q][2]
        /\ Len(appLog) = 3 /\ appLog[1] = "New Token" /\ appLog[2] = p
        /\ ValidToken(appLog[3], database[p][2])
        /\ LastSeen(p) = strptime(appLog[3].data)
        /\ LastSeen(q) < LastSeen(p)

\* the step is the tick step that evaluates a stale phone of beacon b
AlertsFor(b) ==
    /\ ControlStep
    /\ \E p \in PhoneIds : Evaluating(p) /\ Stale(p) /\ database[p][1] = b

\* with the Authority reachable, the alerts and datetimes of a beacon it knows
\* grow by one in the tick step that evaluates a stale phone of that beacon,
\* one step for each such phone, and in no other step
AlertsPerStep ==
    \A b \in DOMAIN authDatabase :
        (authPc = "accept" /\ authPc' = "accept")
        => Count(b)' = Count(b) + (IF AlertsFor(b) THEN 1 ELSE 0)

\* with the Authority reachable, a tick does not end before it has evaluated
\* every phone that was registered when it began, is stale, and has a beacon
\* that the Authority knows
TickEvaluatesAll ==
    (ctlPc = "run" /\ ctlPc' # "run" /\ authPc = "accept")
    => \A i \in (ctlPos + 1)..ctlLen :
          ~(Stale(dbKeys[i]) /\ database[dbKeys[i]][1] \in DOMAIN authDatabase)

\* C26: alerts go by subject, not by beacon: in one detection tick the ledger of
\* a beacon that the reachable Authority knows gets as many entries as there are
\* stale phones registered with that beacon (two for two stale phones of one
\* beacon): every stale phone is evaluated in the tick and adds exactly one.
C26_AlertsPerSubject == [][AlertsPerStep /\ TickEvaluatesAll]_vars

\* the thread of the control routine has ended with the Authority reachable and
\* idle: a phone of a beacon the Authority knows is stale, and the ledger is empty
C26_Witness ==
    /\ ctlPc = "dead"
    /\ authPc = "accept"
    /\ authConn = <<>>
    /\ LogSize = 0
    /\ Len(dbKeys) = 2
    /\ Stale(dbKeys[1])
    /\ database[dbKeys[1]][1] \in DOMAIN authDatabase
    /\ database[dbKeys[1]][1] = database[dbKeys[2]][1]

\* C27: in a data tick every beacon routine runs before every phone routine,
\* and a tick begins only when the one before has ended; the routine of a
\* beacon empties its packet or overwrites it with a token of the clock; so
\* the token that a phone delivers, with wifi on or when wifi has just come
\* back, was encrypted by its beacon in the data tick in which it is delivered.
C27_TokensOfThisTick ==
    /\ [](relayed # NoRelay => relayed.made = relayed.tick)
    /\ [](dataPc.at = "phone" => \A h \in Range(header_list) : packetTick[h] = tick)
    /\ [](dataPc.at = "beacon" => relayed.tick < tick)
    /\ [][/\ tick' # tick => dataPc.at = "timer" /\ dataPc'.at = "beacon"
          /\ BeaconStep =>
                LET h == header_list[dataPc.i]
                IN  packet'[h] \in {<<>>, <<Encrypt(key_list[dataPc.i], strftime(now))>>}
          /\ relayed' # relayed =>
                /\ dataPc.at = "phone"
                /\ packet[header_list[dataPc.i]] # <<>>
                /\ relayed'.phone = phone_list[dataPc.i]]_vars

\* the second data tick has ended: one beacon was off in it and its packet is
\* empty; the phone of the other one had its wifi off, stored the token of
\* this tick and, its wifi coming back, delivered it
C27_Witness ==
    /\ tick = 2
    /\ dataPc.at = "timer"
    /\ packet[header_list[1]] = <<>>
    /\ packet[header_list[2]] # <<>>
    /\ relayed = [phone |-> phone_list[2], tick |-> 2, made |-> 2, offline |-> TRUE]
    /\ DOMAIN phoneLog[phone_list[2]] # {}
    /\ appLog = <<"New Token", phone_list[2], packet[header_list[2]][1]>>
====
